---- MODULE Spec2Model ----
(***************************************************************************)
(* The atomic page-flip loop of kmscube (src/drm-atomic.c): the driving    *)
(* thread running atomic_run / drm_atomic_commit, the GPU executing the    *)
(* command stream in order, and the display completing non-blocking        *)
(* atomic commits.  Cross-timeline ordering is by fences only.  The steps  *)
(* of run() (src/kmscube.c) that lead to the loop come before it.          *)
(***************************************************************************)
EXTENDS Integers, Sequences, FiniteSets, TLC

\* ---------------------------------------------------------------- bounds
\* Number of loop iterations of atomic_run that are explored (while (1)).
MaxFrames == 3
\* Number of colour buffers of the gbm surface.
NumBuffers == 2
\* File descriptors 1..MaxFd can be handed out by dup / the kernel.
MaxFd == 3
\* How often eglClientWaitSyncKHR may return something other than
\* EGL_CONDITION_SATISFIED_KHR within one iteration.
MaxWaitFailures == 2
\* How many needed property names a driver may fail to expose (SpecCfg).
MaxMissing == 1

\* ------------------------------------------------------- program constants
NoFd == -1
EINVAL == 22

VARIABLES
  \* locals of atomic_run
  pc, i, flags, bo, next_bo, fb_id, gpu_fence, kms_fence, ret,
  \* struct drm
  kms_in_fence_fd, kms_out_fence_fd, conn_props, crtc_props, plane_props, mode,
  \* the process' file descriptors, the gbm surface, the GPU, the display
  fdFence, bufState, gpuQ, gpuWriting, signaled, pending, scanout,
  \* history: the iteration running, the transactions submitted, the buffers
  \* released, and for the iteration running the calls of eglClientWaitSyncKHR,
  \* how many of them failed, and whether it began with a pending out-fence
  iter, commits, releases, waitCalls, waitFailures, hadOutFence, drawCalls,
  fenceCalls, lastReq,
  \* run() of kmscube.c: its local pointer drm ("valid" or "NULL"), and
  \* whether a field was read or written through it while it was NULL
  drm, nullAccess

threadVars == <<pc, i, flags, bo, next_bo, fb_id, gpu_fence, kms_fence, ret>>
drmVars == <<kms_in_fence_fd, kms_out_fence_fd, conn_props, crtc_props, plane_props, mode>>
envVars == <<fdFence, bufState, gpuQ, gpuWriting, signaled, pending, scanout>>
histVars == <<iter, commits, releases, waitCalls, waitFailures, hadOutFence, drawCalls,
              fenceCalls, lastReq>>
runVars == <<drm, nullAccess>>
vars == <<threadVars, drmVars, envVars, histVars, runVars>>

\* ------------------------------------------------------------ identifiers
Buffers == 1 .. NumBuffers
NullBo == 0
Fds == 1 .. MaxFd

\* A fence on a timeline: the GPU fence of frame k, the display's
\* completion fence of the commit of frame k, or none.
Fence(kind, frame) == [kind |-> kind, frame |-> frame]
NoFence == Fence("none", 0)

\* An EGLSyncKHR object: NULL, or a sync wrapping a fence; fd is the native
\* fence fd it owns (NoFd for EGL_NO_NATIVE_FENCE_FD_ANDROID).
NullSync == [valid |-> FALSE, fence |-> NoFence, fd |-> NoFd]
Sync(fence, fd) == [valid |-> TRUE, fence |-> fence, fd |-> fd]

\* Object ids of the single connector / crtc / plane pipeline.
connector_id == 31
crtc_id == 41
plane_id == 51

\* Display-side framebuffer id that drm_fb_get_from_bo associates with a bo.
FbIdOf(b) == 100 + b

\* ------------------------------------------------------- property tables
ConnectorNames == <<"CRTC_ID">>
CrtcNames == <<"MODE_ID", "ACTIVE", "OUT_FENCE_PTR">>
PlaneNames == <<"FB_ID", "CRTC_ID", "SRC_X", "SRC_Y", "SRC_W", "SRC_H",
                "CRTC_X", "CRTC_Y", "CRTC_W", "CRTC_H", "IN_FENCE_FD">>

\* Every (object, name) pair that drm_atomic_commit looks up.
NeededProps ==
  {<<"connector", ConnectorNames[n]>> : n \in DOMAIN ConnectorNames}
    \cup {<<"crtc", CrtcNames[n]>> : n \in DOMAIN CrtcNames}
    \cup {<<"plane", PlaneNames[n]>> : n \in DOMAIN PlaneNames}

\* props_info[] of one object as get_properties fills it: the driver's
\* properties in the driver's order, each with its driver-assigned id.
PropTable(kind, names, base, missing) ==
  LET keep == SelectSeq([n \in DOMAIN names |-> [name |-> names[n], prop_id |-> base + n]],
                        LAMBDA e : <<kind, e.name>> \notin missing)
  IN keep

\* ------------------------------------------------ property resolution
\* The for-loop with break of add_*_property: the prop_id of the first table
\* entry whose name matches, or the initial value of prop_id when none does.
FindProp(tbl, name, initial) ==
  LET hits == {n \in DOMAIN tbl : tbl[n].name = name}
  IN IF hits = {} THEN initial
     ELSE tbl[CHOOSE n \in hits : \A m \in hits : n <= m].prop_id

\* drmModeAtomicAddProperty: appends one (object, property, value) triple and
\* returns the new number of triples.  (q is req, bound once.)
AtomicAddProperty(req, obj_id, prop_id, value) ==
  CHOOSE r \in {[ret |-> Len(q) + 1,
                 req |-> Append(q, [obj |-> obj_id, prop |-> prop_id, value |-> value])]
                  : q \in {req}} : TRUE

\* The initial value of prop_id in add_connector_property.
ConnectorPropInit == 0
\* The initial value of prop_id in add_crtc_property and add_plane_property.
PropInit == -1

add_connector_property(tbl, req, obj_id, name, value) ==
  LET prop_id == FindProp(tbl, name, ConnectorPropInit)
  IN IF prop_id < 0 THEN [ret |-> -EINVAL, req |-> req]
     ELSE AtomicAddProperty(req, obj_id, prop_id, value)

\* prop_id started at 0, as add_connector_property does.
add_crtc_property_Init0(tbl, req, obj_id, name, value) ==
  LET prop_id == FindProp(tbl, name, ConnectorPropInit)
  IN IF prop_id < 0 THEN [ret |-> -EINVAL, req |-> req]
     ELSE AtomicAddProperty(req, obj_id, prop_id, value)

add_crtc_property(tbl, req, obj_id, name, value) ==
  LET prop_id == FindProp(tbl, name, PropInit)
  IN IF prop_id < 0 THEN [ret |-> -EINVAL, req |-> req]
     ELSE AtomicAddProperty(req, obj_id, prop_id, value)

add_plane_property(tbl, req, obj_id, name, value) ==
  LET prop_id == FindProp(tbl, name, PropInit)
  IN IF prop_id < 0 THEN [ret |-> -EINVAL, req |-> req]
     ELSE AtomicAddProperty(req, obj_id, prop_id, value)

\* ------------------------------------------------------ drm_atomic_commit
\* Id of the blob drmModeCreatePropertyBlob makes of the mode.
blob_id == 77

\* A uint64_t property value, as four 16-bit limbs, most significant first.
\* U64 converts a value below 65536 (an object id, a blob id, a file
\* descriptor, a 16-bit mode dimension).
U64(x) == <<0, 0, 0, x>>

\* x << 16 for a uint16_t x, converted to the uint64_t argument: x is promoted
\* to int, and from 32768 on the result does not fit a 32-bit int, which is
\* undefined; builds either keep the mathematical value or wrap to a negative
\* int that is sign-extended.
Shl16(x) ==
  IF x < 32768 THEN {<<0, 0, x, 0>>}
  ELSE {<<0, 0, x, 0>>, <<65535, 65535, x, 0>>}

\* Lines 112-126: the modeset branch.  ok is FALSE when one of the checked
\* steps returned early with -1.
ModesetProps(req, flg, blobOk) ==
  IF "ALLOW_MODESET" \notin flg THEN [ok |-> TRUE, req |-> req]
  ELSE
    LET a1 == add_connector_property(conn_props, req, connector_id, "CRTC_ID", U64(crtc_id))
        a2 == add_crtc_property(crtc_props, a1.req, crtc_id, "MODE_ID", U64(blob_id))
        a3 == add_crtc_property(crtc_props, a2.req, crtc_id, "ACTIVE", U64(1))
    IN IF a1.ret < 0 THEN [ok |-> FALSE, req |-> a1.req]
       ELSE IF ~blobOk THEN [ok |-> FALSE, req |-> a1.req]
       ELSE IF a2.ret < 0 THEN [ok |-> FALSE, req |-> a2.req]
       ELSE IF a3.ret < 0 THEN [ok |-> FALSE, req |-> a3.req]
       ELSE [ok |-> TRUE, req |-> a3.req]

\* The source size given in whole pixels, not in 16.16 fixed point.
PlaneSettings_SrcUnshifted(fb, srcw, srch) ==
  << <<"FB_ID", U64(fb)>>, <<"CRTC_ID", U64(crtc_id)>>,
     <<"SRC_X", U64(0)>>, <<"SRC_Y", U64(0)>>,
     <<"SRC_W", U64(mode.hdisplay)>>, <<"SRC_H", U64(mode.vdisplay)>>,
     <<"CRTC_X", U64(0)>>, <<"CRTC_Y", U64(0)>>,
     <<"CRTC_W", U64(mode.hdisplay)>>, <<"CRTC_H", U64(mode.vdisplay)>> >>

\* Lines 128-137: the plane properties, in order; the return value of each
\* add_plane_property is not looked at.
PlaneSettings(fb, srcw, srch) ==
  << <<"FB_ID", U64(fb)>>, <<"CRTC_ID", U64(crtc_id)>>,
     <<"SRC_X", U64(0)>>, <<"SRC_Y", U64(0)>>,
     <<"SRC_W", srcw>>, <<"SRC_H", srch>>,
     <<"CRTC_X", U64(0)>>, <<"CRTC_Y", U64(0)>>,
     <<"CRTC_W", U64(mode.hdisplay)>>, <<"CRTC_H", U64(mode.vdisplay)>> >>

\* (The settings still to add are bound once per call, as rest.)
RECURSIVE AddPlaneProps(_, _)
AddPlaneProps(req, settings) ==
  CHOOSE r \in {IF rest = <<>> THEN req
                ELSE AddPlaneProps(
                       add_plane_property(plane_props, req, plane_id, Head(rest)[1],
                                          Head(rest)[2]).req,
                       Tail(rest))
                 : rest \in {settings}} : TRUE

PlaneProps(req, fb, srcw, srch) == AddPlaneProps(req, PlaneSettings(fb, srcw, srch))

\* The two fence fields mixed up: IN_FENCE_FD is given drm->kms_out_fence_fd.
FenceProps_OutFd(req, in_fd) ==
  IF in_fd # NoFd
  THEN LET a == add_crtc_property(crtc_props, req, crtc_id, "OUT_FENCE_PTR", U64(1))
       IN add_plane_property(plane_props, a.req, plane_id, "IN_FENCE_FD",
                             U64(kms_out_fence_fd)).req
  ELSE req

\* The request for an out-fence left out: only IN_FENCE_FD is set.
FenceProps_OnlyIn(req, in_fd) ==
  IF in_fd # NoFd
  THEN add_plane_property(plane_props, req, plane_id, "IN_FENCE_FD", U64(in_fd)).req
  ELSE req

\* Lines 139-143: the fence properties.  The value of OUT_FENCE_PTR is the
\* address of drm->kms_out_fence_fd, written here as 1.
FenceProps(req, in_fd) ==
  IF in_fd # NoFd
  THEN LET a == add_crtc_property(crtc_props, req, crtc_id, "OUT_FENCE_PTR", U64(1))
       IN add_plane_property(plane_props, a.req, plane_id, "IN_FENCE_FD", U64(in_fd)).req
  ELSE req

\* What a request asks of the display, read back from its triples.
HasProp(req, obj_id, tbl, name) ==
  \E n \in DOMAIN req : \E e \in DOMAIN tbl :
     /\ tbl[e].name = name
     /\ req[n].obj = obj_id
     /\ req[n].prop = tbl[e].prop_id

PropValue(req, obj_id, tbl, name) ==
  LET ns == {n \in DOMAIN req : \E e \in DOMAIN tbl :
               tbl[e].name = name /\ req[n].obj = obj_id /\ req[n].prop = tbl[e].prop_id}
  IN req[CHOOSE n \in ns : \A m \in ns : m <= n].value

\* One atomic transaction as the display acts on it: the frame it belongs to,
\* whether it may change the mode, the framebuffer and the fences it names.
\* busy records whether the previous transaction was still outstanding when
\* this one was submitted.  (Its triples are kept in lastReq.)
NoTxn == [frame |-> -1, modeset |-> FALSE, fb |-> 0, inFd |-> NoFd,
          inFence |-> NoFence, outReq |-> FALSE, accepted |-> FALSE, busy |-> FALSE]

\* The fence an open file descriptor refers to (NoFence: not an open fence fd).
FenceOfFd(fd) == IF fd \in Fds THEN fdFence[fd] ELSE NoFence

\* The descriptor the kernel hands out next: the lowest one not in use.
LowestFreeFd(tbl) == CHOOSE fd \in Fds : tbl[fd] = NoFence /\ \A g \in Fds : g < fd => tbl[g] # NoFence

HasFreeFd(tbl) == \E fd \in Fds : tbl[fd] = NoFence

\* The request drm_atomic_commit hands to drmModeAtomicCommit (lines 110-143),
\* given that the modeset branch did not return early.
BuildReq(modesetReq, fb, srcw, srch, in_fd) ==
  FenceProps(PlaneProps(modesetReq, fb, srcw, srch), in_fd)

\* What drmModeAtomicCommit (line 145) is asked: the transaction read back
\* from the triples of req.
TxnOf(req, flg, frame) ==
  LET hasFb == HasProp(req, plane_id, plane_props, "FB_ID")
      hasIn == HasProp(req, plane_id, plane_props, "IN_FENCE_FD")
      infd  == IF hasIn THEN PropValue(req, plane_id, plane_props, "IN_FENCE_FD")[4]
               ELSE NoFd
  IN [frame |-> frame,
      modeset |-> "ALLOW_MODESET" \in flg,
      fb |-> IF hasFb THEN PropValue(req, plane_id, plane_props, "FB_ID")[4] ELSE 0,
      inFd |-> infd,
      inFence |-> FenceOfFd(infd),
      outReq |-> HasProp(req, crtc_id, crtc_props, "OUT_FENCE_PTR"),
      accepted |-> FALSE,
      busy |-> pending # NoTxn]

\* Whether the display may accept the transaction: it rejects a commit while
\* the previous one is still pending (the comment at lines 241-245), and one
\* whose IN_FENCE_FD is not an open fence fd.
MayAccept(txn) ==
  /\ pending = NoTxn
  /\ (txn.inFd # NoFd => txn.inFence # NoFence)

\* A loop that gives up after the first call, whatever it returned.
WaitAgain_Never(status) == FALSE

\* Line 251: the condition of the do-while around eglClientWaitSyncKHR.
WaitAgain(status) == status # "CONDITION_SATISFIED"

\* The test of ret inverted, and the test left out.
AfterCommit_Inverted(r) == IF r = 0 THEN "returned" ELSE "release"

AfterCommit_IgnoreRet(r) == "release"

\* Lines 261-264: what atomic_run does with the result of drm_atomic_commit.
AfterCommit(r) == IF r # 0 THEN "returned" ELSE "release"

\* The GPU told to wait for its own fence of the frame it is about to draw.
GpuWaitCmds_OwnFence(sync) ==
  <<[op |-> "wait", fence |-> Fence("gpu", sync.fence.frame + 1), buf |-> 0, frame |-> 0]>>

\* The eglWaitSyncKHR call left out: nothing is put into the stream.
GpuWaitCmds_None(sync) == <<>>

\* Line 207: the command eglWaitSyncKHR puts into the GPU's stream.
GpuWaitCmds(sync) == <<[op |-> "wait", fence |-> sync.fence, buf |-> 0, frame |-> 0]>>

\* The field left as it was after the close.
InFenceAfterCommit_Kept(fd) == fd

\* Lines 149-152: after a successful commit the in-fence field is reset.
InFenceAfterCommit(fd) == IF fd # NoFd THEN NoFd ELSE fd

\* The release left out: the buffer stays locked.
ReleaseBuffer_Kept(st, b) == st

\* Line 268: gbm_surface_release_buffer gives a locked buffer back to the
\* surface.
ReleaseBuffer(st, b) == [st EXCEPT ![b] = "free"]

\* The flag never cleared.
ClearModeset_Kept(flg) == flg

\* Line 272: the flags of the following iterations.
ClearModeset(flg) == flg \ {"ALLOW_MODESET"}

\* ------------------------------------------------------------------ Init
\* The assignment of line 403 left out: the field keeps the 0 of calloc.
InitOutFenceFd_Zeroed == NoFd + 1

\* Line 403: the out-fence field init_drm_atomic sets after the calloc.
InitOutFenceFd == NoFd

FullTables ==
  /\ conn_props = PropTable("connector", ConnectorNames, 10, {})
  /\ crtc_props = PropTable("crtc", CrtcNames, 20, {})
  /\ plane_props = PropTable("plane", PlaneNames, 30, {})

AnyTables ==
  \E missing \in {m \in SUBSET NeededProps : Cardinality(m) <= MaxMissing} :
    /\ conn_props = PropTable("connector", ConnectorNames, 10, missing)
    /\ crtc_props = PropTable("crtc", CrtcNames, 20, missing)
    /\ plane_props = PropTable("plane", PlaneNames, 30, missing)

\* The state after init_drm_atomic: the calloc'ed struct drm with mode m and
\* kms_out_fence_fd = -1 (every other field zero), nothing on the GPU or the
\* display yet.  start is where the driving thread stands and d the pointer
\* run() got back.
InitState(start, m, d) ==
  /\ pc = start
  /\ i = 0
  /\ flags = {"NONBLOCK"}
  /\ bo = NullBo
  /\ next_bo = NullBo
  /\ fb_id = 0
  /\ gpu_fence = NullSync
  /\ kms_fence = NullSync
  /\ ret = 0
  /\ kms_in_fence_fd = 0
  /\ kms_out_fence_fd = InitOutFenceFd
  /\ mode = m
  /\ fdFence = [fd \in Fds |-> NoFence]
  /\ bufState = [b \in Buffers |-> "unused"]
  /\ gpuQ = <<>>
  /\ gpuWriting = 0
  /\ signaled = {}
  /\ pending = NoTxn
  /\ scanout = 0
  /\ iter = 0
  /\ commits = <<>>
  /\ releases = <<>>
  /\ waitCalls = 0
  /\ waitFailures = 0
  /\ hadOutFence = FALSE
  /\ drawCalls = 0
  /\ fenceCalls = 0
  /\ lastReq = [triples |-> <<>>, submitted |-> FALSE, freed |-> TRUE]
  /\ drm = d
  /\ nullAccess = FALSE

\* The mode of the connector picked by init_drm.
DefaultMode == [hdisplay |-> 1920, vdisplay |-> 1080]

\* The state in which run() calls drm->run.
InitRest == InitState("check", DefaultMode, "valid")

Init == FullTables /\ InitRest

InitCfg == AnyTables /\ InitRest

\* Widths and heights a mode may have: hdisplay and vdisplay are uint16_t.
Dims == {1080, 1920, 32767, 32768, 65535}

InitModes ==
  /\ FullTables
  /\ \E w \in Dims, h \in Dims :
       InitState("check", [hdisplay |-> w, vdisplay |-> h], "valid")

\* run() after line 98: init_drm_atomic has returned the struct or NULL.
InitRun ==
  /\ FullTables
  /\ \E d \in {"valid", "NULL"} : InitState("run_store", DefaultMode, d)

\* ------------------------------------------------- the driving thread
\* Lines 180-188: the extension check, then flags |= ALLOW_MODESET.
EglCheck ==
  /\ pc = "check"
  /\ \E ok \in BOOLEAN :
       IF ok
       THEN /\ flags' = flags \cup {"ALLOW_MODESET"}
            /\ pc' = "top"
       ELSE /\ pc' = "returned"
            /\ flags' = flags
  /\ UNCHANGED runVars
  /\ UNCHANGED <<i, bo, next_bo, fb_id, gpu_fence, kms_fence, ret>>
  /\ UNCHANGED <<drmVars, envVars, histVars>>

\* Lines 191-208: the head of an iteration.  A pending out-fence fd is
\* imported as kms_fence (the driver takes the fd) and the GPU is told to wait
\* for it; create_fence asserts that the sync was made.
ImportOutFence ==
  /\ pc = "top"
  /\ iter < MaxFrames
  /\ gpu_fence' = NullSync
  /\ IF kms_out_fence_fd # NoFd
     THEN \E ok \in BOOLEAN :
            IF ok
            THEN /\ kms_fence' = Sync(FenceOfFd(kms_out_fence_fd), kms_out_fence_fd)
                 /\ kms_out_fence_fd' = NoFd
                 /\ gpuQ' = gpuQ \o GpuWaitCmds(kms_fence')
                 /\ hadOutFence' = TRUE
                 /\ pc' = "draw"
            ELSE /\ pc' = "aborted"
                 /\ hadOutFence' = TRUE
                 /\ UNCHANGED <<kms_fence, kms_out_fence_fd, gpuQ>>
     ELSE /\ kms_fence' = NullSync
          /\ pc' = "draw"
          /\ UNCHANGED <<kms_out_fence_fd, gpuQ, hadOutFence>>
  /\ UNCHANGED runVars
  /\ UNCHANGED <<i, flags, bo, next_bo, fb_id, ret>>
  /\ UNCHANGED <<kms_in_fence_fd, conn_props, crtc_props, plane_props, mode>>
  /\ UNCHANGED <<fdFence, bufState, gpuWriting, signaled, pending, scanout>>
  /\ UNCHANGED <<iter, commits, releases, waitCalls, waitFailures, drawCalls,
                 fenceCalls, lastReq>>

\* A buffer EGL may take as the new back buffer: any released one, or a
\* buffer never used so far (those are interchangeable, so the first one).
Takeable(b) ==
  \/ bufState[b] = "free"
  \/ bufState[b] = "unused" /\ \A c \in Buffers : c < b => bufState[c] # "unused"

\* Line 210: egl->draw(egl, i++).  The rendering goes to the surface's back
\* buffer; when there is none, EGL takes a buffer that is neither locked nor
\* the front buffer.
Draw ==
  /\ pc = "draw"
  /\ \E b \in Buffers :
       /\ IF \E c \in Buffers : bufState[c] = "back"
          THEN bufState[b] = "back"
          ELSE Takeable(b)
       /\ bufState' = [bufState EXCEPT ![b] = "back"]
       /\ gpuQ' = Append(gpuQ, [op |-> "draw", fence |-> NoFence, buf |-> b, frame |-> i])
  /\ i' = i + 1
  /\ drawCalls' = drawCalls + 1
  /\ pc' = "fence"
  /\ UNCHANGED runVars
  /\ UNCHANGED <<flags, bo, next_bo, fb_id, gpu_fence, kms_fence, ret>>
  /\ UNCHANGED drmVars
  /\ UNCHANGED <<fdFence, gpuWriting, signaled, pending, scanout>>
  /\ UNCHANGED <<iter, commits, releases, waitCalls, waitFailures, hadOutFence,
                 fenceCalls, lastReq>>

\* Lines 215-216: the GPU fence, signaled when the commands queued so far
\* are done.
CreateGpuFence ==
  /\ pc = "fence"
  /\ \E ok \in BOOLEAN :
       IF ok
       THEN /\ gpu_fence' = Sync(Fence("gpu", iter), NoFd)
            /\ gpuQ' = Append(gpuQ, [op |-> "signal", fence |-> Fence("gpu", iter),
                                     buf |-> 0, frame |-> 0])
            /\ pc' = "swap"
       ELSE /\ pc' = "aborted"
            /\ UNCHANGED <<gpu_fence, gpuQ>>
  /\ fenceCalls' = fenceCalls + 1
  /\ UNCHANGED runVars
  /\ UNCHANGED <<i, flags, bo, next_bo, fb_id, kms_fence, ret>>
  /\ UNCHANGED drmVars
  /\ UNCHANGED <<fdFence, bufState, gpuWriting, signaled, pending, scanout>>
  /\ UNCHANGED <<iter, commits, releases, waitCalls, waitFailures, hadOutFence,
                 drawCalls, lastReq>>

\* Line 218: eglSwapBuffers makes the back buffer the front buffer.
SwapBuffers ==
  /\ pc = "swap"
  /\ bufState' = [b \in Buffers |-> IF bufState[b] = "back" THEN "front" ELSE bufState[b]]
  /\ pc' = "dup"
  /\ UNCHANGED runVars
  /\ UNCHANGED <<i, flags, bo, next_bo, fb_id, gpu_fence, kms_fence, ret>>
  /\ UNCHANGED drmVars
  /\ UNCHANGED <<fdFence, gpuQ, gpuWriting, signaled, pending, scanout>>
  /\ UNCHANGED histVars

\* Lines 223-225: the GPU fence is exported as a new fd, the sync destroyed,
\* and the fd asserted to be valid.
DupFence ==
  /\ pc = "dup"
  /\ \E ok \in BOOLEAN :
       IF ok /\ HasFreeFd(fdFence)
       THEN LET fd == LowestFreeFd(fdFence)
            IN /\ kms_in_fence_fd' = fd
               /\ fdFence' = [fdFence EXCEPT ![fd] = gpu_fence.fence]
               /\ pc' = "lock"
       ELSE /\ kms_in_fence_fd' = NoFd
            /\ fdFence' = fdFence
            /\ pc' = "aborted"
  /\ gpu_fence' = NullSync
  /\ UNCHANGED runVars
  /\ UNCHANGED <<i, flags, bo, next_bo, fb_id, kms_fence, ret>>
  /\ UNCHANGED <<kms_out_fence_fd, conn_props, crtc_props, plane_props, mode>>
  /\ UNCHANGED <<bufState, gpuQ, gpuWriting, signaled, pending, scanout>>
  /\ UNCHANGED histVars

\* Lines 227-231: gbm_surface_lock_front_buffer.
LockFrontBuffer ==
  /\ pc = "lock"
  /\ \E ok \in BOOLEAN :
       IF ok /\ \E b \in Buffers : bufState[b] = "front"
       THEN LET b == CHOOSE c \in Buffers : bufState[c] = "front"
            IN /\ next_bo' = b
               /\ bufState' = [bufState EXCEPT ![b] = "locked"]
               /\ pc' = "getfb"
       ELSE /\ next_bo' = NullBo
            /\ bufState' = bufState
            /\ pc' = "returned"
  /\ UNCHANGED runVars
  /\ UNCHANGED <<i, flags, bo, fb_id, gpu_fence, kms_fence, ret>>
  /\ UNCHANGED drmVars
  /\ UNCHANGED <<fdFence, gpuQ, gpuWriting, signaled, pending, scanout>>
  /\ UNCHANGED histVars

\* Lines 232-236: drm_fb_get_from_bo.
GetFb ==
  /\ pc = "getfb"
  /\ \E ok \in BOOLEAN :
       IF ok
       THEN /\ fb_id' = FbIdOf(next_bo)
            /\ pc' = "wait"
       ELSE /\ fb_id' = 0
            /\ pc' = "returned"
  /\ UNCHANGED runVars
  /\ UNCHANGED <<i, flags, bo, next_bo, gpu_fence, kms_fence, ret>>
  /\ UNCHANGED <<drmVars, envVars, histVars>>

\* Line 238 with kms_fence NULL: nothing to wait for.
SkipWait ==
  /\ pc = "wait"
  /\ ~kms_fence.valid
  /\ pc' = "commit"
  /\ UNCHANGED runVars
  /\ UNCHANGED <<i, flags, bo, next_bo, fb_id, gpu_fence, kms_fence, ret>>
  /\ UNCHANGED <<drmVars, envVars, histVars>>

\* Lines 246-253: one call of eglClientWaitSyncKHR with EGL_FOREVER_KHR.  It
\* returns "condition satisfied" once the fence has signaled, or fails; the
\* do-while decides whether to call again, and after the loop the sync is
\* destroyed, which closes the fd it owns.
ClientWait ==
  /\ pc = "wait"
  /\ kms_fence.valid
  /\ \E status \in {"CONDITION_SATISFIED", "FALSE"} :
       /\ status = "CONDITION_SATISFIED" => kms_fence.fence \in signaled
       /\ status = "FALSE" => waitFailures < MaxWaitFailures
       /\ waitFailures' = IF status = "FALSE" THEN waitFailures + 1 ELSE waitFailures
       /\ IF WaitAgain(status)
          THEN UNCHANGED <<pc, kms_fence, fdFence>>
          ELSE /\ pc' = "commit"
               /\ kms_fence' = NullSync
               /\ fdFence' = [fd \in Fds |-> IF fd = kms_fence.fd THEN NoFence
                                             ELSE fdFence[fd]]
  /\ waitCalls' = waitCalls + 1
  /\ UNCHANGED runVars
  /\ UNCHANGED <<i, flags, bo, next_bo, fb_id, gpu_fence, ret>>
  /\ UNCHANGED drmVars
  /\ UNCHANGED <<bufState, gpuQ, gpuWriting, signaled, pending, scanout>>
  /\ UNCHANGED <<iter, commits, releases, hadOutFence, drawCalls, fenceCalls, lastReq>>

\* Lines 260-264 with drm_atomic_commit (lines 103-158) inlined.  blobOk is the
\* outcome of drmModeCreatePropertyBlob, kernelOk that of drmModeAtomicCommit.
\* An early return of the modeset branch submits nothing and skips
\* drmModeAtomicFree.  A successful commit makes the transaction the display's
\* pending one, stores the new out-fence fd through OUT_FENCE_PTR when asked
\* to, and closes the in-fence fd; a rejected one leaves both fields alone.
Commit ==
  /\ pc = "commit"
  /\ \E blobOk \in BOOLEAN, kernelOk \in BOOLEAN,
        srcw \in Shl16(mode.hdisplay), srch \in Shl16(mode.vdisplay) :
       \E m \in {ModesetProps(<<>>, flags, blobOk)} :
       \E req \in {BuildReq(m.req, fb_id, srcw, srch, kms_in_fence_fd)} :
       \E txn \in {TxnOf(req, flags, iter)} :
       LET accepted == kernelOk /\ MayAccept(txn)
           afterOut == IF txn.outReq /\ HasFreeFd(fdFence)
                       THEN [fdFence EXCEPT ![LowestFreeFd(fdFence)] = Fence("kms", iter)]
                       ELSE fdFence
       IN IF ~m.ok
          THEN /\ ret' = -1
               /\ lastReq' = [triples |-> m.req, submitted |-> FALSE, freed |-> FALSE]
               /\ UNCHANGED <<kms_in_fence_fd, kms_out_fence_fd, fdFence, pending, commits>>
          ELSE IF accepted
          THEN /\ ret' = 0
               /\ lastReq' = [triples |-> req, submitted |-> TRUE, freed |-> TRUE]
               /\ pending' = [txn EXCEPT !.accepted = TRUE]
               /\ commits' = Append(commits, [txn EXCEPT !.accepted = TRUE])
               /\ kms_out_fence_fd' = IF txn.outReq /\ HasFreeFd(fdFence)
                                      THEN LowestFreeFd(fdFence)
                                      ELSE kms_out_fence_fd
               /\ fdFence' = [fd \in Fds |-> IF kms_in_fence_fd # NoFd /\ fd = kms_in_fence_fd
                                             THEN NoFence ELSE afterOut[fd]]
               /\ kms_in_fence_fd' = InFenceAfterCommit(kms_in_fence_fd)
          ELSE /\ ret' = -1
               /\ lastReq' = [triples |-> req, submitted |-> TRUE, freed |-> TRUE]
               /\ commits' = Append(commits, txn)
               /\ UNCHANGED <<kms_in_fence_fd, kms_out_fence_fd, fdFence, pending>>
  /\ pc' = AfterCommit(ret')
  /\ UNCHANGED runVars
  /\ UNCHANGED <<i, flags, bo, next_bo, fb_id, gpu_fence, kms_fence>>
  /\ UNCHANGED <<conn_props, crtc_props, plane_props, mode>>
  /\ UNCHANGED <<bufState, gpuQ, gpuWriting, signaled, scanout>>
  /\ UNCHANGED <<iter, releases, waitCalls, waitFailures, hadOutFence, drawCalls,
                 fenceCalls>>

\* Lines 266-272: the previous buffer goes back to the surface, the new one
\* becomes current, and the modeset flag is cleared; then the next iteration.
Release ==
  /\ pc = "release"
  /\ IF bo # NullBo
     THEN /\ bufState' = ReleaseBuffer(bufState, bo)
          /\ releases' = Append(releases, [bo |-> bo, iter |-> iter])
     ELSE UNCHANGED <<bufState, releases>>
  /\ bo' = next_bo
  /\ flags' = ClearModeset(flags)
  /\ iter' = iter + 1
  /\ waitCalls' = 0
  /\ waitFailures' = 0
  /\ hadOutFence' = FALSE
  /\ pc' = "top"
  /\ UNCHANGED runVars
  /\ UNCHANGED <<i, next_bo, fb_id, gpu_fence, kms_fence, ret>>
  /\ UNCHANGED drmVars
  /\ UNCHANGED <<fdFence, gpuQ, gpuWriting, signaled, pending, scanout>>
  /\ UNCHANGED <<commits, drawCalls, fenceCalls, lastReq>>

\* ---------------------------------------------------------------- the GPU
\* The GPU runs its command stream in order.  A wait command holds the
\* stream until its fence has signaled.
GpuWait ==
  /\ gpuQ # <<>>
  /\ Head(gpuQ).op = "wait"
  /\ Head(gpuQ).fence \in signaled
  /\ gpuQ' = Tail(gpuQ)
  /\ UNCHANGED runVars
  /\ UNCHANGED <<threadVars, drmVars, histVars>>
  /\ UNCHANGED <<fdFence, bufState, gpuWriting, signaled, pending, scanout>>

\* The GPU starts writing the frame into its target buffer ...
GpuDrawStart ==
  /\ gpuQ # <<>>
  /\ Head(gpuQ).op = "draw"
  /\ gpuWriting = 0
  /\ gpuWriting' = Head(gpuQ).buf
  /\ UNCHANGED runVars
  /\ UNCHANGED <<threadVars, drmVars, histVars>>
  /\ UNCHANGED <<fdFence, bufState, gpuQ, signaled, pending, scanout>>

\* ... and finishes it.
GpuDrawEnd ==
  /\ gpuWriting # 0
  /\ gpuWriting' = 0
  /\ gpuQ' = Tail(gpuQ)
  /\ UNCHANGED runVars
  /\ UNCHANGED <<threadVars, drmVars, histVars>>
  /\ UNCHANGED <<fdFence, bufState, signaled, pending, scanout>>

\* The GPU reaches a fence in its stream and signals it.
GpuSignal ==
  /\ gpuQ # <<>>
  /\ Head(gpuQ).op = "signal"
  /\ signaled' = signaled \cup {Head(gpuQ).fence}
  /\ gpuQ' = Tail(gpuQ)
  /\ UNCHANGED runVars
  /\ UNCHANGED <<threadVars, drmVars, histVars>>
  /\ UNCHANGED <<fdFence, bufState, gpuWriting, pending, scanout>>

\* ------------------------------------------------------------ the display
\* The display completes the pending transaction once its in-fence (if any)
\* has signaled: the new framebuffer is scanned out from now on, and the
\* out-fence (if one was asked for) signals.
DisplayFlip ==
  /\ pending # NoTxn
  /\ pending.inFence # NoFence => pending.inFence \in signaled
  /\ scanout' = IF pending.fb # 0 THEN pending.fb ELSE scanout
  /\ signaled' = IF pending.outReq THEN signaled \cup {Fence("kms", pending.frame)}
                 ELSE signaled
  /\ pending' = NoTxn
  /\ UNCHANGED runVars
  /\ UNCHANGED <<threadVars, drmVars, histVars>>
  /\ UNCHANGED <<fdFence, bufState, gpuQ, gpuWriting>>

\* ------------------------------------------------------------------- Next
Next ==
  \/ EglCheck
  \/ ImportOutFence
  \/ Draw
  \/ CreateGpuFence
  \/ SwapBuffers
  \/ DupFence
  \/ LockFrontBuffer
  \/ GetFb
  \/ SkipWait
  \/ ClientWait
  \/ Commit
  \/ Release
  \/ GpuWait
  \/ GpuDrawStart
  \/ GpuDrawEnd
  \/ GpuSignal
  \/ DisplayFlip

\* ------------------------------------------------------- run() of kmscube.c
\* Lines 100-101: drm->fd = drm_fd; drm->leased_fd = leased_fd, before the
\* pointer is tested.  Through a NULL pointer the stores are undefined: the
\* process is killed, or it goes on to the test of line 103, or it goes on
\* past a test the compiler removed because drm was dereferenced before it.
RunStoreFds ==
  /\ pc = "run_store"
  /\ IF drm = "NULL"
     THEN /\ nullAccess' = TRUE
          /\ \E outcome \in {"crashed", "run_nullcheck", "run_setup"} : pc' = outcome
     ELSE /\ nullAccess' = nullAccess
          /\ pc' = "run_nullcheck"
  /\ UNCHANGED <<i, flags, bo, next_bo, fb_id, gpu_fence, kms_fence, ret, drm>>
  /\ UNCHANGED <<drmVars, envVars, histVars>>

\* Lines 103-106: the failure is reported and the process exits.
RunNullCheck ==
  /\ pc = "run_nullcheck"
  /\ pc' = IF drm = "NULL" THEN "exited" ELSE "run_setup"
  /\ UNCHANGED <<i, flags, bo, next_bo, fb_id, gpu_fence, kms_fence, ret>>
  /\ UNCHANGED <<drmVars, envVars, histVars, runVars>>

\* Lines 108-133: init_gbm reads drm->mode; then gbm and EGL are set up, and
\* drm->run is called when both succeeded.
RunSetup ==
  /\ pc = "run_setup"
  /\ IF drm = "NULL"
     THEN pc' = "crashed"
     ELSE \E ok \in BOOLEAN : pc' = IF ok THEN "check" ELSE "run_returned"
  /\ UNCHANGED <<i, flags, bo, next_bo, fb_id, gpu_fence, kms_fence, ret>>
  /\ UNCHANGED <<drmVars, envVars, histVars, runVars>>

NextRun ==
  \/ RunStoreFds
  \/ RunNullCheck
  \/ RunSetup
  \/ Next

\* A correctly configured display path: every needed property is exposed.
Spec == Init /\ [][Next]_vars

\* The steps of the driving thread, and those of the GPU.
Thread ==
  \/ EglCheck
  \/ ImportOutFence
  \/ Draw
  \/ CreateGpuFence
  \/ SwapBuffers
  \/ DupFence
  \/ LockFrontBuffer
  \/ GetFb
  \/ SkipWait
  \/ ClientWait
  \/ Commit
  \/ Release

Gpu ==
  \/ GpuWait
  \/ GpuDrawStart
  \/ GpuDrawEnd
  \/ GpuSignal

\* An operation has failed: atomic_run has left the loop (lines 184, 230, 235,
\* 263, or the assert of lines 168 and 225), or a wait returned without
\* "condition satisfied".
Failed == pc \in {"returned", "aborted"} \/ waitFailures > 0

\* The steps in which no operation fails.
NextOk ==
  \/ EglCheck /\ ~Failed'
  \/ ImportOutFence /\ ~Failed'
  \/ Draw /\ ~Failed'
  \/ CreateGpuFence /\ ~Failed'
  \/ SwapBuffers /\ ~Failed'
  \/ DupFence /\ ~Failed'
  \/ LockFrontBuffer /\ ~Failed'
  \/ GetFb /\ ~Failed'
  \/ SkipWait /\ ~Failed'
  \/ ClientWait /\ ~Failed'
  \/ Commit /\ ~Failed'
  \/ Release /\ ~Failed'
  \/ GpuWait
  \/ GpuDrawStart
  \/ GpuDrawEnd
  \/ GpuSignal
  \/ DisplayFlip

\* No operation fails; the thread runs whenever it is not blocked, the GPU
\* executes the head of its stream whenever it can, and the display completes
\* a pending transaction whose in-fence has signaled.
SpecLive ==
  /\ Init
  /\ [][NextOk]_vars
  /\ WF_vars(Thread /\ ~Failed')
  /\ WF_vars(Gpu)
  /\ WF_vars(DisplayFlip)

\* Any mode of the connector, on a correctly configured display path.
SpecModes == InitModes /\ [][Next]_vars

\* The program from run() on, init_drm_atomic having succeeded or failed.
SpecRun == InitRun /\ [][NextRun]_vars

\* Any configuration in which up to MaxMissing needed properties are absent.
SpecCfg == InitCfg /\ [][Next]_vars

\* =================================================================== claims
\* The buffer a framebuffer id belongs to (0 when none).
BufferOfFb(fb) == IF \E b \in Buffers : FbIdOf(b) = fb
                  THEN CHOOSE b \in Buffers : FbIdOf(b) = fb
                  ELSE 0

Accepted(k) == \E n \in DOMAIN commits : commits[n].accepted /\ commits[n].frame = k

\* C1: at most one atomic transaction is outstanding: no transaction is
\* submitted while its predecessor is still pending on the display, and the
\* transaction of frame k+1 is submitted only after the out-fence of the
\* transaction of frame k has signaled.
C1_OneOutstanding ==
  \A n \in DOMAIN commits :
    /\ ~commits[n].busy
    /\ commits[n].frame > 0 => Fence("kms", commits[n].frame - 1) \in signaled

\* Three transactions were submitted one after the other and accepted.
C1_Witness ==
  /\ Len(commits) = 3
  /\ \A n \in DOMAIN commits : commits[n].accepted /\ commits[n].frame = n - 1

\* C2: the GPU never writes a frame into the buffer the display is scanning
\* out, whether or not atomic_run has released that buffer already.
C2_NoRenderIntoScanout ==
  gpuWriting # 0 => FbIdOf(gpuWriting) # scanout

\* The GPU is writing into a buffer that was on screen before and that
\* atomic_run released after the commit of its successor.
C2_Witness ==
  /\ gpuWriting # 0
  /\ \E r \in DOMAIN releases : releases[r].bo = gpuWriting
  /\ scanout # 0

\* C3: of the submitted transactions exactly one carries ALLOW_MODESET, and it
\* is the transaction of frame 0.
C3_ModesetOnlyFrame0 ==
  /\ \A n \in DOMAIN commits : commits[n].modeset <=> commits[n].frame = 0
  /\ Cardinality({n \in DOMAIN commits : commits[n].modeset})
       = IF commits = <<>> THEN 0 ELSE 1

\* Frames 0, 1 and 2 have each submitted their transaction.
C3_Witness ==
  /\ Len(commits) = 3
  /\ commits[1].modeset
  /\ ~commits[3].modeset

\* C4: the in-fence carried by the transaction of iteration k is an open
\* handle to the GPU fence created in iteration k, after the draw of frame k.
C4_InFenceOfSameIteration ==
  \A n \in DOMAIN commits :
    /\ commits[n].inFd # NoFd
    /\ commits[n].inFence = Fence("gpu", commits[n].frame)

\* The transaction of frame 2 carries a descriptor number that an earlier
\* iteration used for another fence.
C4_Witness ==
  \E n \in DOMAIN commits :
    /\ commits[n].frame = 2
    /\ commits[n].accepted
    /\ commits[n].inFence = Fence("gpu", 2)
    /\ \E m \in DOMAIN commits : m < n /\ commits[m].inFd = commits[n].inFd

\* C5: the buffer published by the transaction of frame k stays locked until
\* the transaction of frame k+1 has been accepted; every release happens in
\* an iteration whose transaction was accepted and gives back the buffer the
\* previous transaction published; nothing is released before the first
\* accepted commit.
C5_ReleaseAfterSuccessor ==
  /\ \A n \in DOMAIN commits :
       (commits[n].accepted /\ ~Accepted(commits[n].frame + 1))
         => /\ BufferOfFb(commits[n].fb) \in Buffers
            /\ bufState[BufferOfFb(commits[n].fb)] = "locked"
  /\ \A r \in DOMAIN releases :
       /\ Accepted(releases[r].iter)
       /\ \E n \in DOMAIN commits :
            /\ commits[n].accepted
            /\ commits[n].frame = releases[r].iter - 1
            /\ commits[n].fb = FbIdOf(releases[r].bo)
  /\ (\A n \in DOMAIN commits : ~commits[n].accepted) => releases = <<>>

\* The buffer of frame 0 has been released after the commit of frame 1.
C5_Witness ==
  /\ Len(releases) >= 1
  /\ releases[1].iter = 1
  /\ bufState[releases[1].bo] = "free"

\* C6: in every iteration the blocking wait is called at most
\* once, never in iteration 0, and only when the iteration began with a
\* pending out-fence handle.
C6_WaitAtMostOnce ==
  /\ waitCalls <= 1
  /\ iter = 0 => waitCalls = 0
  /\ waitCalls > 0 => hadOutFence

\* What atomic_run does instead: the wait is never called in iteration 0 and
\* only in an iteration that began with a pending out-fence handle; there it
\* is called once, and once more for every call that returned something other
\* than "condition satisfied".
C6_WaitOncePerResult ==
  /\ iter = 0 => waitCalls = 0
  /\ waitCalls > 0 => hadOutFence
  /\ waitCalls <= waitFailures + 1
  /\ (hadOutFence /\ pc \in {"commit", "release"}) => waitCalls = waitFailures + 1
  /\ (~hadOutFence /\ pc \in {"commit", "release"}) => waitCalls = 0

\* Iteration 1 called the wait twice: one failed call, then the satisfied one.
C6_Witness ==
  /\ iter = 1
  /\ pc = "commit"
  /\ waitCalls = 2
  /\ waitFailures = 1

\* C7: when atomic_run has returned, every fence it created, imported or
\* exported has been destroyed or closed.
C7_FencesDestroyedOnReturn ==
  pc = "returned" =>
    /\ ~gpu_fence.valid
    /\ ~kms_fence.valid
    /\ \A fd \in Fds : fdFence[fd] = NoFence

\* C8: once drm_atomic_commit has failed in iteration k, atomic_run has
\* returned: no draw, fence or commit beyond those of iteration k, and both
\* the buffer acquired in iteration k and the current buffer are still locked.
C8_HaltOnCommitFailure ==
  ret # 0 =>
    /\ pc = "returned"
    /\ drawCalls = iter + 1
    /\ fenceCalls = iter + 1
    /\ Len(commits) <= iter + 1
    /\ next_bo # NullBo /\ bufState[next_bo] = "locked"
    /\ bo # NullBo => bufState[bo] = "locked"
    /\ \A r \in DOMAIN releases : releases[r].iter < iter

\* The commit of frame 2 was rejected, with the buffer of frame 1 current;
\* the GPU and the display have finished what was queued.
C8_Witness ==
  /\ ret # 0
  /\ iter = 2
  /\ bo # NullBo
  /\ ~commits[Len(commits)].accepted
  /\ gpuQ = <<>>
  /\ pending = NoTxn

NameIn(tbl, name) == \E e \in DOMAIN tbl : tbl[e].name = name

TableOf(kind) == IF kind = "connector" THEN conn_props
                 ELSE IF kind = "crtc" THEN crtc_props
                 ELSE plane_props

PropsSetIn(txn) ==
  {<<"plane", PlaneNames[n]>> : n \in DOMAIN PlaneNames}
    \cup {<<"crtc", "OUT_FENCE_PTR">>}
    \cup (IF txn.modeset
          THEN {<<"connector", "CRTC_ID">>, <<"crtc", "MODE_ID">>, <<"crtc", "ACTIVE">>}
          ELSE {})

\* C10: a transaction is submitted only when every property it sets was
\* resolved.
C10_AbandonOnResolutionFailure ==
  \A n \in DOMAIN commits :
    \A p \in PropsSetIn(commits[n]) : NameIn(TableOf(p[1]), p[2])

\* The object id and the add_*_property function of an object kind.
ObjIdOf(kind) == IF kind = "connector" THEN connector_id
                 ELSE IF kind = "crtc" THEN crtc_id
                 ELSE plane_id

Resolve(kind, req, name, value) ==
  IF kind = "connector"
  THEN add_connector_property(conn_props, req, connector_id, name, value)
  ELSE IF kind = "crtc"
  THEN add_crtc_property(crtc_props, req, crtc_id, name, value)
  ELSE add_plane_property(plane_props, req, plane_id, name, value)

\* C11: for every object kind and every name, resolution appends one triple
\* carrying the property id of the table entry with exactly that name when
\* there is one, and fails with an error, appending nothing, when the name is
\* absent from the table of that object.
C11_ResolveExactOrFail ==
  \A p \in NeededProps \cup {<<"connector", "ACTIVE">>, <<"crtc", "FB_ID">>,
                             <<"plane", "MODE_ID">>} :
    LET tbl == TableOf(p[1])
        r == Resolve(p[1], <<>>, p[2], U64(1))
    IN IF NameIn(tbl, p[2])
       THEN /\ r.ret > 0
            /\ Len(r.req) = 1
            /\ r.req[1].obj = ObjIdOf(p[1])
            /\ \E e \in DOMAIN tbl : tbl[e].name = p[2] /\ tbl[e].prop_id = r.req[1].prop
       ELSE /\ r.ret < 0
            /\ r.req = <<>>

\* C12: no wait is retried: once a call of eglClientWaitSyncKHR has returned
\* something other than "condition satisfied", atomic_run has terminated with
\* an error and the same wait is not issued again.
C12_NoRetryOfWait ==
  waitFailures > 0 => /\ pc \in {"returned", "aborted"}
                      /\ waitCalls = 1

\* C18: whenever drm_atomic_commit has returned, the request it allocated has
\* been freed: after a successful commit, after a rejected commit, and after
\* a failure in the modeset branch.
C18_ReqFreedOnReturn ==
  pc \in {"release", "returned", "top"} => lastReq.freed

\* 16.16 fixed point: the whole number x as a uint64_t, x * 65536.
Fixed16(x) == <<0, 0, x, 0>>

\* C13: a submitted transaction holds the connector's CRTC_ID, the crtc's
\* MODE_ID (the mode blob) and ACTIVE = 1 exactly when it is submitted with
\* ALLOW_MODESET, and every submitted transaction holds the plane's FB_ID of
\* the buffer acquired in its iteration, the plane's CRTC_ID, source and
\* destination origin (0,0), and source and destination size of the full mode.
C13_TransactionContents ==
  lastReq.submitted =>
    LET req == lastReq.triples
        t == commits[Len(commits)]
        Has(kind, name) == HasProp(req, ObjIdOf(kind), TableOf(kind), name)
        Val(kind, name) == PropValue(req, ObjIdOf(kind), TableOf(kind), name)
    IN /\ t.modeset =>
            /\ Has("connector", "CRTC_ID") /\ Val("connector", "CRTC_ID") = U64(crtc_id)
            /\ Has("crtc", "MODE_ID") /\ Val("crtc", "MODE_ID") = U64(blob_id)
            /\ Has("crtc", "ACTIVE") /\ Val("crtc", "ACTIVE") = U64(1)
       /\ ~t.modeset =>
            /\ ~Has("connector", "CRTC_ID")
            /\ ~Has("crtc", "MODE_ID")
            /\ ~Has("crtc", "ACTIVE")
       /\ Has("plane", "FB_ID")
       /\ t.frame = iter => Val("plane", "FB_ID") = U64(FbIdOf(next_bo))
       /\ t.frame = iter - 1 => Val("plane", "FB_ID") = U64(FbIdOf(bo))
       /\ Has("plane", "CRTC_ID") /\ Val("plane", "CRTC_ID") = U64(crtc_id)
       /\ \A n \in {"SRC_X", "SRC_Y", "CRTC_X", "CRTC_Y"} :
            Has("plane", n) /\ Val("plane", n) = U64(0)
       /\ Has("plane", "SRC_W") /\ Val("plane", "SRC_W") = Fixed16(mode.hdisplay)
       /\ Has("plane", "SRC_H") /\ Val("plane", "SRC_H") = Fixed16(mode.vdisplay)
       /\ Has("plane", "CRTC_W") /\ Val("plane", "CRTC_W") = U64(mode.hdisplay)
       /\ Has("plane", "CRTC_H") /\ Val("plane", "CRTC_H") = U64(mode.vdisplay)

\* The transaction of frame 1, without ALLOW_MODESET, was submitted after the
\* one of frame 0, which carried it.
C13_Witness ==
  /\ lastReq.submitted
  /\ Len(commits) = 2
  /\ commits[1].modeset /\ commits[1].accepted
  /\ ~commits[2].modeset /\ commits[2].frame = 1
  /\ pc = "release"

\* C14: every transaction after frame 0 names an in-fence, and in every
\* transaction the in-fence handle and the request for a new out-fence are
\* both present or both absent.
C14_FencesTogether ==
  \A n \in DOMAIN commits :
    /\ commits[n].frame > 0 => commits[n].inFd # NoFd
    /\ commits[n].inFd # NoFd <=> commits[n].outReq

\* The transactions of frames 0 and 1 were accepted, each with an in-fence and
\* a request for an out-fence, and the out-fence fd of frame 1 was stored.
C14_Witness ==
  /\ Len(commits) = 2
  /\ \A n \in DOMAIN commits :
       commits[n].accepted /\ commits[n].inFd # NoFd /\ commits[n].outReq
  /\ kms_out_fence_fd # NoFd
  /\ pc = "release"

Locked == {b \in Buffers : bufState[b] = "locked"}

\* C15: atomic_run holds at most two locked buffers at any time, the current
\* one and the newly acquired one; between iterations, after the first
\* successful commit, it holds exactly one; and no acquired buffer is released
\* twice: a buffer about to be released is still locked, and every release
\* belongs to another iteration.
C15_AtMostTwoLocked ==
  /\ Cardinality(Locked) <= 2
  /\ Locked \subseteq {bo, next_bo}
  /\ (pc = "top" /\ iter >= 1) => Locked = {bo}
  /\ (pc = "release" /\ bo # NullBo) => bufState[bo] = "locked"
  /\ \A r, q \in DOMAIN releases : r # q => releases[r].iter # releases[q].iter

\* Iteration 2 holds the buffer of frame 1 and the one just acquired, after
\* the buffer of frame 0 was released and taken again.
C15_Witness ==
  /\ iter = 2
  /\ pc = "commit"
  /\ Cardinality(Locked) = 2
  /\ Len(releases) = 1

\* The part of an iteration between the import of the out-fence fd and the
\* commit, and the part before the in-fence fd is exported.
BeforeCommit == {"draw", "fence", "swap", "dup", "lock", "getfb", "wait", "commit"}
BeforeDup == {"check", "top", "draw", "fence", "swap", "dup"}

\* A successful commit has closed the in-fence fd and reset the field, a
\* failed one has left the field and the fd as they were, and from the import
\* of the out-fence fd to the commit kms_out_fence_fd is -1.
FenceFieldsAroundCommit ==
  /\ pc = "release" =>
       /\ kms_in_fence_fd = NoFd
       /\ \A fd \in Fds : fdFence[fd] # Fence("gpu", iter)
  /\ ret # 0 =>
       /\ kms_in_fence_fd \in Fds
       /\ fdFence[kms_in_fence_fd] = Fence("gpu", iter)
  /\ pc \in BeforeCommit => kms_out_fence_fd = NoFd

\* C16: on entry to every iteration, iteration 0 included, kms_in_fence_fd
\* is -1; a successful commit closes the in-fence fd and resets the field, a
\* failed commit leaves it unchanged; and after the import of the out-fence
\* fd kms_out_fence_fd is -1 until the next commit.
C16_FenceFieldsUnsetOnEntry ==
  /\ pc = "top" => kms_in_fence_fd = NoFd
  /\ FenceFieldsAroundCommit

\* C16 as amended: on entry to every iteration after the first
\* kms_in_fence_fd is -1; in iteration 0 it holds the 0 of calloc until line
\* 223 assigns it, while kms_out_fence_fd holds the -1 of line 403; the field
\* read by drm_atomic_commit is always the fd exported in the same iteration.
C16_FenceFieldsHandedOff ==
  /\ (pc = "top" /\ iter >= 1) => kms_in_fence_fd = NoFd
  /\ (iter = 0 /\ pc \in BeforeDup) => kms_in_fence_fd = 0
  /\ (iter = 0 /\ pc \in {"check", "top"}) => kms_out_fence_fd = NoFd
  /\ pc = "commit" => /\ kms_in_fence_fd \in Fds
                      /\ fdFence[kms_in_fence_fd] = Fence("gpu", iter)
  /\ FenceFieldsAroundCommit

\* Iteration 2 has imported the out-fence fd of frame 1 and exported its own
\* in-fence fd, after two commits that closed theirs.
C16_Witness ==
  /\ iter = 2
  /\ pc = "commit"
  /\ Len(commits) = 2
  /\ kms_in_fence_fd # NoFd
  /\ kms_out_fence_fd = NoFd
  /\ hadOutFence

\* C17: for every 16-bit width and height of the mode, the transaction holds
\* SRC_W = width * 65536 and SRC_H = height * 65536 as 64-bit values, without
\* sign extension or wraparound, and CRTC_W = width, CRTC_H = height.
C17_SourceSizeFixedPoint ==
  lastReq.submitted =>
    LET Val(name) == PropValue(lastReq.triples, plane_id, plane_props, name)
    IN /\ Val("SRC_W") = Fixed16(mode.hdisplay)
       /\ Val("SRC_H") = Fixed16(mode.vdisplay)
       /\ Val("CRTC_W") = U64(mode.hdisplay)
       /\ Val("CRTC_H") = U64(mode.vdisplay)

\* C20: when init_drm_atomic has returned NULL, run() reports the failure and
\* exits: no field is read or written through the pointer, and neither the
\* set-up of gbm and EGL nor the frame loop is reached.
C20_InitFailureExits ==
  drm = "NULL" => /\ ~nullAccess
                  /\ pc \in {"run_store", "run_nullcheck", "exited"}

\* C19: when no operation fails, every iteration gets past the GPU-side wait
\* and the CPU-side wait and submits its transaction, the GPU completes every
\* command submitted to it, and the display completes every accepted
\* transaction and signals its out-fence.
C19_EveryFrameSubmitted ==
  \A k \in 0 .. MaxFrames - 1 :
    <>(/\ Accepted(k)
       /\ Fence("gpu", k) \in signaled
       /\ Fence("kms", k) \in signaled
       /\ (k = MaxFrames - 1 => gpuQ = <<>> /\ pending = NoTxn))

\* The loop has run all its iterations without a failed operation, the last
\* one after both waits on the out-fence of its predecessor, and the GPU and
\* the display have finished everything.
C19_Witness ==
  /\ iter = MaxFrames
  /\ \A k \in 0 .. MaxFrames - 1 : Accepted(k) /\ Fence("kms", k) \in signaled
  /\ gpuQ = <<>>
  /\ pending = NoTxn
  /\ scanout = FbIdOf(bo)

====
